---- MODULE Spec2Model ----
(***************************************************************************)
(* A model of flexicomic's panel generation: the work enumeration of       *)
(* generateComic (scripts/generate.ts), the page and panel range parsers   *)
(* (scripts/validation.ts), the two generation strategies and the single   *)
(* panel job (scripts/parallel.ts) and the provider retry loop             *)
(* (scripts/utils/image-gen-adapter.ts).                                   *)
(*                                                                         *)
(* Strings are sequences of one-character strings, so that split, trim and *)
(* parseInt are computed as the code computes them.  One step of the model *)
(* is one run-to-completion turn of the JavaScript event loop: the code    *)
(* between two suspensions on real I/O.                                    *)
(***************************************************************************)
EXTENDS Integers, Sequences, FiniteSets, TLC

(***************************************************************************)
(* Bounds of the model.                                                    *)
(***************************************************************************)
\* pages of a project in the generation runs
MaxPages == 3
\* panels declared by one page in the generation runs
MaxPanels == 1
\* jobs of one generation run
MaxJobs == 3
\* pages of a project in the enumeration runs
EnumMaxPages == 3
\* panels declared by one page in the enumeration runs
EnumMaxPanels == 2
\* rows and columns of a grid in the geometry runs
MaxGridDim == 2
\* characters of a --pages argument in the enumeration runs
MaxRangeLen == 3
\* pages of a project in the job runs
RunMaxPages == 3
\* pages of a project in the retry runs
MaxOptionPages == 1
\* characters of a project in the job runs
MaxCharacters == 1

\* pages of a project in the fair runs
LiveMaxPages == 3

(***************************************************************************)
(* Strings.                                                                *)
(***************************************************************************)
Digits == <<"0", "1", "2", "3", "4", "5", "6", "7", "8", "9">>

IsDigit(c) == \E d \in 1..10 : Digits[d] = c

DigitVal(c) == (CHOOSE d \in 1..10 : Digits[d] = c) - 1

\* The decimal digit of a number below ten, as a character.
DigitChar(k) == Digits[k + 1]

\* String.prototype.includes, for a one-character needle.
Includes(s, c) == \E k \in 1..Len(s) : s[k] = c

RECURSIVE SplitAcc(_, _, _, _, _)
SplitAcc(s, sep, k, cur, acc) ==
    IF k > Len(s) THEN Append(acc, cur)
    ELSE IF s[k] = sep THEN SplitAcc(s, sep, k + 1, <<>>, Append(acc, cur))
    ELSE SplitAcc(s, sep, k + 1, Append(cur, s[k]), acc)

\* String.prototype.split on a one-character separator: "" splits to [""].
Split(s, sep) == SplitAcc(s, sep, 1, <<>>, <<>>)

RECURSIVE TrimLeft(_)
TrimLeft(s) == IF s # <<>> /\ Head(s) = " " THEN TrimLeft(Tail(s)) ELSE s

RECURSIVE TrimRight(_)
TrimRight(s) ==
    IF s # <<>> /\ s[Len(s)] = " " THEN TrimRight(SubSeq(s, 1, Len(s) - 1)) ELSE s

\* String.prototype.trim.
Trim(s) == TrimRight(TrimLeft(s))

RECURSIVE DigitPrefix(_, _, _)
DigitPrefix(s, k, acc) ==
    IF k <= Len(s) /\ IsDigit(s[k])
    THEN DigitPrefix(s, k + 1, [nan |-> FALSE, n |-> 10 * acc.n + DigitVal(s[k])])
    ELSE acc

\* The number a sign and a digit prefix stand for.
Signed(sign, r) == IF sign = "-" /\ ~r.nan THEN [nan |-> FALSE, n |-> 0 - r.n] ELSE r

ParseTrimmed(t) ==
    IF t # <<>> /\ Head(t) \in {"+", "-"}
    THEN Signed(Head(t), DigitPrefix(Tail(t), 1, [nan |-> TRUE, n |-> 0]))
    ELSE DigitPrefix(t, 1, [nan |-> TRUE, n |-> 0])

\* parseInt(s, 10): leading blanks skipped, an optional sign, then the longest
\* prefix of digits; NaN when there is no digit.  Text after the digits is ignored.
ParseInt(s) == ParseTrimmed(TrimLeft(s))

\* What a destructured array element that does not exist parses to: undefined,
\* for which isNaN is true.
Undefined == [nan |-> TRUE, n |-> 0]

(***************************************************************************)
(* Arrays.                                                                 *)
(***************************************************************************)
Range(s) == {s[k] : k \in 1..Len(s)}

AppendNew(init, last) == IF last \in Range(init) THEN init ELSE Append(init, last)

RECURSIVE Dedupe(_)
\* [...new Set(xs)]: the first occurrence of every element, in insertion order.
Dedupe(xs) ==
    IF xs = <<>> THEN <<>>
    ELSE AppendNew(Dedupe(SubSeq(xs, 1, Len(xs) - 1)), xs[Len(xs)])

RECURSIVE Insert(_, _)
Insert(x, sorted) ==
    IF sorted = <<>> THEN <<x>>
    ELSE IF x <= Head(sorted) THEN <<x>> \o sorted
    ELSE <<Head(sorted)>> \o Insert(x, Tail(sorted))

RECURSIVE SortAsc(_)
\* Array.prototype.sort((a, b) => a - b).
SortAsc(xs) == IF xs = <<>> THEN <<>> ELSE Insert(Head(xs), SortAsc(Tail(xs)))

\* The numbers i = start, start+1, ..., end that lie in 1..total, in that order.
RECURSIVE Upto(_, _)
Upto(lo, hi) == IF lo > hi THEN <<>> ELSE <<lo>> \o Upto(lo + 1, hi)

Max(a, b) == IF a >= b THEN a ELSE b

Min(a, b) == IF a <= b THEN a ELSE b

(***************************************************************************)
(* The project: an array of pages, each with an id and its declared panels.*)
(* A panel is known by its id, which names its file panels/<id>.png.       *)
(***************************************************************************)
PanelIds == {"a", "b"}

PageId(k) == <<"p", DigitChar(k)>>

\* The panel arrays of one page: ids are unique within a page.
Layouts(maxPanels) ==
    UNION {{f \in [1..n -> PanelIds] : \A x, y \in 1..n : x # y => f[x] # f[y]}
           : n \in 1..maxPanels}

Projects(maxPages, layouts) ==
    UNION {{[k \in 1..n |-> [id |-> PageId(k), panels |-> f[k]]] : f \in [1..n -> layouts]}
           : n \in 1..maxPages}

\* An option that was not given: null and "" are both falsy.
NoArg == <<>>

(***************************************************************************)
(* validation.ts: validatePageRange and validatePanelRange.                *)
(***************************************************************************)
Thrown == [err |-> TRUE, out |-> <<>>]

\* for (let i = start; i <= end; i++) if (i >= 1 && i <= total) push(i)
HyphenItem(start, end, total) ==
    IF start.nan \/ end.nan THEN Thrown
    ELSE [err |-> FALSE, out |-> Upto(Max(start.n, 1), Min(end.n, total))]

\* const [start, end] = trimmed.split("-").map((s) => parseInt(s.trim(), 10))
HyphenSplit(nums, total) ==
    HyphenItem(ParseInt(Trim(nums[1])),
               IF Len(nums) >= 2 THEN ParseInt(Trim(nums[2])) ELSE Undefined,
               total)

\* A plain item that keeps its number whether or not the project has the page.
PlainItemKeepAll(page, total) ==
    IF page.nan THEN Thrown ELSE [err |-> FALSE, out |-> <<page.n>>]

\* const page = parseInt(trimmed, 10): throw on NaN, push when in 1..total
PlainItem(page, total) ==
    IF page.nan THEN Thrown
    ELSE [err |-> FALSE,
          out |-> IF page.n >= 1 /\ page.n <= total THEN <<page.n>> ELSE <<>>]

TrimmedItem(trimmed, total) ==
    IF Includes(trimmed, "-") THEN HyphenSplit(Split(trimmed, "-"), total)
    ELSE PlainItem(ParseInt(trimmed), total)

\* One comma-separated item of a range: the numbers it names within 1..total,
\* in the order the loop pushes them, or the error thrown.
RangeItem(part, total) == TrimmedItem(Trim(part), total)

RECURSIVE RangeLoop(_, _, _, _)
RangeNext(parts, k, total, acc, r) ==
    IF r.err THEN Thrown ELSE RangeLoop(parts, k + 1, total, acc \o r.out)

\* for (const part of range.split(",")): the first bad item throws.
RangeLoop(parts, k, total, acc) ==
    IF k > Len(parts) THEN [err |-> FALSE, out |-> acc]
    ELSE RangeNext(parts, k, total, acc, RangeItem(parts[k], total))

\* A validatePageRange that forgets the sort.
PageRangeResultUnsorted(pages) == Dedupe(pages)

\* return [...new Set(pages)].sort((a, b) => a - b)
PageRangeResult(pages) == SortAsc(Dedupe(pages))

PageRangeReturn(r) ==
    IF r.err THEN [err |-> TRUE, pages |-> <<>>]
    ELSE [err |-> FALSE, pages |-> PageRangeResult(r.out)]

validatePageRange(range, totalPages) ==
    PageRangeReturn(RangeLoop(Split(range, ","), 1, totalPages, <<>>))

\* pages.find((p) => p.id === pageId): the index of the first such page, or 0.
FindPage(pages, pageId) ==
    IF \E k \in 1..Len(pages) : pages[k].id = pageId
    THEN CHOOSE k \in 1..Len(pages) :
            pages[k].id = pageId /\ \A j \in 1..(k - 1) : pages[j].id # pageId
    ELSE 0

\* return [...new Set(panels)], the panels pushed being those at the positions named
PanelRangeReturn(r, panels) ==
    IF r.err THEN [err |-> TRUE, ids |-> <<>>]
    ELSE [err |-> FALSE, ids |-> Dedupe([k \in 1..Len(r.out) |-> panels[r.out[k]]])]

PanelRangeOfPage(panelRange, panels) ==
    PanelRangeReturn(RangeLoop(Split(panelRange, ","), 1, Len(panels), <<>>), panels)

PanelRangeOfParts(parts, pages, found) ==
    IF Len(parts) < 2 \/ parts[2] = <<>> THEN [err |-> TRUE, ids |-> <<>>]
    ELSE IF found = 0 THEN [err |-> TRUE, ids |-> <<>>]
    ELSE PanelRangeOfPage(parts[2], pages[found].panels)

PanelRangeSplit(parts, pages) == PanelRangeOfParts(parts, pages, FindPage(pages, parts[1]))

validatePanelRange(range, pages) == PanelRangeSplit(Split(range, ":"), pages)

(***************************************************************************)
(* generate.ts: the work enumeration of generateComic.                     *)
(***************************************************************************)
JobsOfPanels(panels, pageIndex, filtered, wanted) ==
    SelectSeq([k \in 1..Len(panels) |->
                 [pageIndex |-> pageIndex, panelIndex |-> k - 1, id |-> panels[k]]],
              LAMBDA job : ~filtered \/ job.id \in wanted)

\* The jobs of one page: its panels in declared order, filtered by the panel set.
PageJobs(pages, pageIndex, filtered, wanted) ==
    JobsOfPanels(pages[pageIndex].panels, pageIndex, filtered, wanted)

RECURSIVE CollectPanels(_, _, _, _, _)
\* for (const pageIndex of pagesToGenerate) { ... panelsToProcess.push(...) }
CollectPanels(pages, toGenerate, k, filtered, wanted) ==
    IF k > Len(toGenerate) THEN <<>>
    ELSE (IF toGenerate[k] \in 1..Len(pages)
          THEN PageJobs(pages, toGenerate[k], filtered, wanted)
          ELSE <<>>)
         \o CollectPanels(pages, toGenerate, k + 1, filtered, wanted)

(***************************************************************************)
(* image-gen-adapter.ts: the retry loop of callImageGenWithRetry, and      *)
(* parallel.ts: the clamp of the concurrency and the catch of a job's      *)
(* failure.                                                                *)
(***************************************************************************)
\* generateSinglePanel passes maxRetries = 2.
MaxRetries == 2

DefaultConcurrency == 4

MaxConcurrency == 8

\* A retry loop that stops one attempt early (attempt < maxRetries).
RetryStepOneShort(attempt, ok, maxRetries) ==
    IF ok THEN "return"
    ELSE IF attempt + 1 < maxRetries THEN "retry"
    ELSE "throw"

\* A loop that gives up at the first failure.
RetryStepNoRetry(attempt, ok, maxRetries) == IF ok THEN "return" ELSE "throw"

\* A loop whose try block does not return: it goes on to the next attempt after a
\* call that returned.
RetryStepAllAttempts(attempt, ok, maxRetries) ==
    IF attempt + 1 <= maxRetries THEN "retry"
    ELSE IF ok THEN "return"
    ELSE "throw"

\* for (attempt = 0; attempt <= maxRetries; attempt++) { try { await callImageGen;
\* return } catch { lastError = error } } throw lastError: what the loop does when
\* the call of this attempt has returned (ok) or raised.
RetryStep(attempt, ok, maxRetries) ==
    IF ok THEN "return"
    ELSE IF attempt + 1 <= maxRetries THEN "retry"
    ELSE "throw"

\* A loop that remembers the first error it caught.
LastErrorFirst(last, attempt) == IF last = 0 THEN attempt ELSE last

\* lastError = error: the error of the call that has just failed, errors being
\* told apart by the call that raised them (1, 2, 3); 0 is null.
LastError(last, attempt) == attempt

\* await callImageGen(options): every attempt is given the options object the loop
\* was called with.
RetryOptions(opts, attempt) == opts

\* A try/catch that reports progress on success only.
ProgressOnSuccess(step) == IF step = "return" THEN 1 ELSE 0

\* onProgress(), called by generatePanelWithProgress once the job has returned or
\* has thrown: the increments of `completed` when a provider call has ended.
Progress(step) == IF step = "retry" THEN 0 ELSE 1

\* Math.min(Math.max(1, options.concurrency || 4), 8); 0 stands for every falsy
\* value (0, NaN, undefined).
EffectiveConcurrency(c) ==
    Min(Max(1, IF c = 0 THEN DefaultConcurrency ELSE c), MaxConcurrency)

\* A job that writes every panel to the file of panel "a".
OutputPathShared(id) == "a"

\* path.join(outputDir, "panels", `${panel.id}.png`): the file is known by the id.
OutputPath(id) == id

\* A job that does not look for its output file.
OutputNeverExists(id, disk) == FALSE

\* existsSync(outputPath), the path being panels/<panel.id>.png.
OutputExists(id, disk) == id \in disk

\* A generatePanelWithProgress without its try/catch.
JobFailureNeverCaught(strategy) == FALSE

\* generatePanelWithProgress wraps the job in try/catch; the loop of
\* generatePanelSequential awaits generateSinglePanel with no try/catch.
JobFailureCaught(strategy) == strategy = "parallel"

(***************************************************************************)
(* The state.                                                              *)
(***************************************************************************)
VARIABLES
    config,            \* config.pages
    optPages,          \* options.pages
    optPanels,         \* options.panels
    parallel,          \* options.parallel
    optConcurrency,    \* options.concurrency
    files,             \* the panel ids whose file panels/<id>.png exists
    pc,                \* where generateComic is
    error,             \* what was thrown to main: "none", "config" or "job"
    pagesToGenerate,
    panelsToGenerate,  \* the Set of panel ids, or null
    panelsToProcess,   \* the job list
    status,            \* per job: where its generateSinglePanel call is
    calls,             \* per job: the callImageGen calls made for it
    i,                 \* the loop index of the running strategy (1-based)
    concurrency,       \* generatePanelParallel's clamped concurrency
    completed,         \* generatePanelParallel's progress counter
    warned,            \* the jobs whose failure was logged as a warning
    prompted,          \* the jobs for which buildPanelPrompt was called
    written,           \* the jobs whose provider call wrote the panel file
    composed,          \* the pageIndices handed to compositePages, or null
    filesAtStart,      \* the disk when the run started
    prev,              \* the previous run of the same command, or null
    pageSettings,      \* config.pageSettings
    layout,            \* a page's layout and one of its panels
    request,           \* the geometry resolved for that panel, or null
    characters,        \* config.characters.length
    skipRefs,          \* options.skipRefs
    refFiles,          \* the character reference files that exist
    refCall,           \* generateCharacterReferences' provider call in flight, or null
    retry              \* one call of callImageGenWithRetry, or null

vars == <<config, optPages, optPanels, parallel, optConcurrency, files, pc, error,
          pagesToGenerate, panelsToGenerate, panelsToProcess, status, calls, i,
          concurrency, completed, warned, prompted, written, composed,
          filesAtStart, prev, pageSettings, layout, request, characters, skipRefs,
          refFiles, refCall, retry>>

options == <<config, optPages, optPanels, parallel, optConcurrency, pageSettings, layout,
             characters, skipRefs>>

\* What generateCharacterReferences has done, and the retry loop on its own.
references == <<refFiles, refCall, retry>>

\* A Set of panel ids, or null.
NullSet == [null |-> TRUE, ids |-> {}]

SomeSet(S) == [null |-> FALSE, ids |-> S]

\* An array of page indices, or null.
NullPages == [null |-> TRUE, pages |-> <<>>, warned |-> {}]

\* The pages handed to compositePages, and those it warned about.
SomePages(ps, warnedPages) == [null |-> FALSE, pages |-> ps, warned |-> warnedPages]

\* No previous run.
NoRun == [null |-> TRUE]

\* No character reference call in flight.
NoRefCall == [null |-> TRUE, character |-> 0, kind |-> 0, attempt |-> 0]

\* No call of callImageGenWithRetry on its own.
NoRetry == [null |-> TRUE]

NumJobs == Len(panelsToProcess)

Jobs == 1..NumJobs

Settled(j) == status[j] \in {"Skipped", "Succeeded", "Failed"}

(***************************************************************************)
(* layout-parser.ts: the page size, the grid and the bounds of a panel;    *)
(* image-gen-adapter.ts: the aspect ratio of a panel.  A number that is    *)
(* absent is 0 (both are falsy), a string that is absent is "".            *)
(***************************************************************************)
DefaultDpi == 300

DpiInches == 10

DefaultGutter == 10

DefaultPageWidth == 1200

DefaultPageHeight == 1600

\* Math.round(n / d), for n >= 0 and d > 0.
RoundDiv(n, d) == (2 * n + d) \div (2 * d)

PageSizeThrown == [err |-> TRUE, width |-> 0, height |-> 0]

PageSize(width, height) == [err |-> FALSE, width |-> width, height |-> height]

\* if (isNaN(w) || isNaN(h) || w <= 0 || h <= 0) throw; the longer side is baseSize
PageSizeOfRatio(w, h, baseSize) ==
    IF w.nan \/ h.nan THEN PageSizeThrown
    ELSE IF w.n <= 0 \/ h.n <= 0 THEN PageSizeThrown
    ELSE IF w.n >= h.n THEN PageSize(baseSize, RoundDiv(baseSize * h.n, w.n))
    ELSE PageSize(RoundDiv(baseSize * w.n, h.n), baseSize)

\* const [w, h] = pageSettings.aspectRatio.split(":").map((s) => parseInt(s, 10))
PageSizeOfParts(parts, dpi) ==
    PageSizeOfRatio(ParseInt(parts[1]),
                    IF Len(parts) >= 2 THEN ParseInt(parts[2]) ELSE Undefined,
                    dpi * DpiInches)

calculatePageSize(settings) ==
    IF settings.width # 0 /\ settings.height # 0
    THEN PageSize(settings.width, settings.height)
    ELSE PageSizeOfParts(Split(settings.aspectRatio, ":"),
                         IF settings.dpi = 0 THEN DefaultDpi ELSE settings.dpi)

\* page.layout.grid when the page has none.
NoGrid == [null |-> TRUE, rows |-> 0, cols |-> 0, hasGutter |-> FALSE, gutter |-> 0]

Grid(rows, cols, gutter) ==
    [null |-> FALSE, rows |-> rows, cols |-> cols, hasGutter |-> TRUE, gutter |-> gutter]

\* A grid whose optional gutter is not given.
GridNoGutter(rows, cols) ==
    [null |-> FALSE, rows |-> rows, cols |-> cols, hasGutter |-> FALSE, gutter |-> 0]

getLayoutGrid(layoutType, panelsCount) ==
    CASE layoutType = "2x2-grid" -> Grid(2, 2, 10)
      [] layoutType = "cinematic" -> Grid(3, 2, 10)
      [] layoutType = "webtoon" -> Grid(panelsCount, 1, 5)
      [] layoutType = "dense" -> Grid(3, 3, 8)
      [] layoutType = "splash" -> Grid(1, 1, 0)
      [] OTHER -> Grid(2, 2, 10)

\* page.layout.grid || getLayoutGrid(page.layout.type, page.layout.panels.length)
ResolvedGridOf(type, grid, panelsCount) ==
    IF grid.null THEN getLayoutGrid(type, panelsCount) ELSE grid

ResolvedGrid(l) == ResolvedGridOf(l.type, l.grid, l.panelsCount)

\* const gutter = grid.gutter || 10
GutterUsed(grid) ==
    IF grid.hasGutter /\ grid.gutter # 0 THEN grid.gutter ELSE DefaultGutter

\* panel.rowspan || 1
SpanOf(span) == IF span = 0 THEN 1 ELSE span

\* (pageSize.width - gutter * (grid.cols + 1)) / grid.cols
CellSize(pageSide, gutter, cells) == (pageSide - gutter * (cells + 1)) \div cells

\* gutter + panel.position.col * (cellWidth + gutter)
CellOffset(gutter, index, cell) == gutter + index * (cell + gutter)

\* A span that takes a gutter for each of its cells.
SpanExtentOuterGutter(span, cell, gutter) == span * cell + span * gutter

\* colspan * cellWidth + (colspan - 1) * gutter
SpanExtent(span, cell, gutter) == span * cell + (span - 1) * gutter

BoundsOfCells(panel, gutter, cellWidth, cellHeight) ==
    [x |-> CellOffset(gutter, panel.col, cellWidth),
     y |-> CellOffset(gutter, panel.row, cellHeight),
     w |-> SpanExtent(SpanOf(panel.colspan), cellWidth, gutter),
     h |-> SpanExtent(SpanOf(panel.rowspan), cellHeight, gutter)]

BoundsWithGutter(panel, grid, pageSize, gutter) ==
    BoundsOfCells(panel, gutter,
                  CellSize(pageSize.width, gutter, grid.cols),
                  CellSize(pageSize.height, gutter, grid.rows))

calculatePanelBoundsCustom(panel, grid, pageSize) ==
    BoundsWithGutter(panel, grid, pageSize, GutterUsed(grid))

\* The division that gives the cell size leaves no remainder, and the cell has a
\* size: the grids on which the bounds are whole numbers of pixels.  On the other
\* grids the code computes with fractions of a pixel, which are not modelled.
WholeCell(pageSide, gutter, cells) ==
    /\ cells >= 1
    /\ pageSide - gutter * (cells + 1) > 0
    /\ (pageSide - gutter * (cells + 1)) % cells = 0

WholeCells(grid, pageSize) ==
    /\ WholeCell(pageSize.width, GutterUsed(grid), grid.cols)
    /\ WholeCell(pageSize.height, GutterUsed(grid), grid.rows)

\* A reduction that divides by nothing.
GcdNone(a, b) == 1

RECURSIVE Gcd(_, _)
\* const gcd = (a, b) => b === 0 ? a : gcd(b, a % b)
Gcd(a, b) == IF b = 0 THEN a ELSE Gcd(b, a % b)

RECURSIVE NumberToString(_)
\* The decimal digits of a number, as string concatenation writes it.
NumberToString(n) ==
    IF n < 10 THEN <<DigitChar(n)>>
    ELSE NumberToString(n \div 10) \o <<DigitChar(n % 10)>>

\* w + ":" + h
RatioString(w, h) == NumberToString(w) \o <<":">> \o NumberToString(h)

RatioOver(panelWidth, panelHeight, divisor) ==
    RatioString(panelWidth \div divisor, panelHeight \div divisor)

calculatePanelAspectRatio(panelWidth, panelHeight) ==
    RatioOver(panelWidth, panelHeight, Gcd(panelWidth, panelHeight))

\* const ar = panel.aspectRatio || calculatePanelAspectRatio(bounds.w, bounds.h)
PanelAspectRatio(panel, bounds) ==
    IF panel.aspectRatio # <<>> THEN panel.aspectRatio
    ELSE calculatePanelAspectRatio(bounds.w, bounds.h)

\* const pageSize = { width: 1200, height: 1600 }
DefaultPageSize == PageSize(DefaultPageWidth, DefaultPageHeight)

\* No geometry resolved yet.
NoRequest == [null |-> TRUE]

\* The project init.ts writes: pageSettings { aspectRatio: "3:4", dpi: 300 }, a
\* 2x2 grid with gutter 10, panels with rowspan 1 and colspan 1.
DefaultPageSettings ==
    [width |-> 0, height |-> 0, aspectRatio |-> <<"3", ":", "4">>, dpi |-> 300]

DefaultLayout ==
    [type |-> "custom", grid |-> Grid(2, 2, 10), panelsCount |-> 1,
     panel |-> [row |-> 0, col |-> 0, rowspan |-> 1, colspan |-> 1,
                aspectRatio |-> <<>>]]

DefaultProject == pageSettings = DefaultPageSettings /\ layout = DefaultLayout

\* A project without characters: generateComic has no reference to generate.
NoCharacters == characters = 0 /\ skipRefs = FALSE /\ refFiles = {} /\ retry = NoRetry



(***************************************************************************)
(* The enumeration: generateComic up to the choice of the strategy.        *)
(***************************************************************************)
\* The state of the run's locals before generateComic has computed them.
FreshRun ==
    /\ pc = "start"
    /\ error = "none"
    /\ pagesToGenerate = <<>>
    /\ panelsToGenerate = NullSet
    /\ panelsToProcess = <<>>
    /\ status = <<>>
    /\ calls = <<>>
    /\ i = 0
    /\ concurrency = 0
    /\ completed = 0
    /\ warned = {}
    /\ prompted = {}
    /\ written = {}
    /\ composed = NullPages
    /\ request = NoRequest
    /\ refCall = NoRefCall

\* lines 43-48: pagesToGenerate
SelectedPages(pages, pagesArg) ==
    IF pagesArg # NoArg THEN validatePageRange(pagesArg, Len(pages))
    ELSE [err |-> FALSE, pages |-> Upto(1, Len(pages))]

\* lines 50-56: the panel ids of panelsToGenerate
SelectedPanels(pages, panelsArg) ==
    IF panelsArg # NoArg THEN validatePanelRange(panelsArg, pages)
    ELSE [err |-> FALSE, ids |-> <<>>]

EnumeratedPanels(pages, panelsArg, pr, nr) ==
    IF nr.err THEN [err |-> TRUE, pages |-> <<>>, ids |-> {}, jobs |-> <<>>]
    ELSE [err |-> FALSE, pages |-> pr.pages, ids |-> Range(nr.ids),
          jobs |-> CollectPanels(pages, pr.pages, 1, panelsArg # NoArg, Range(nr.ids))]

EnumeratedPages(pages, panelsArg, pr) ==
    IF pr.err THEN [err |-> TRUE, pages |-> <<>>, ids |-> {}, jobs |-> <<>>]
    ELSE EnumeratedPanels(pages, panelsArg, pr, SelectedPanels(pages, panelsArg))

\* The job list generateComic computes from the project and the two selections,
\* or the configuration error it throws.
Enumerated(pages, pagesArg, panelsArg) ==
    EnumeratedPages(pages, panelsArg, SelectedPages(pages, pagesArg))

\* generateComic, lines 79-103: the job list, and the early return when there is
\* nothing to generate.
Collect(jobs) ==
    /\ panelsToProcess' = jobs
    /\ status' = [j \in 1..Len(jobs) |-> "Pending"]
    /\ calls' = [j \in 1..Len(jobs) |-> 0]
    /\ pc' = IF jobs = <<>> THEN "done" ELSE "collected"

\* The reference images of a character, in the order generateCharacterReferences
\* makes them.
RefKinds == <<"expressions", "angles", "fullbody", "palette">>

RefFile(character, kind) == [character |-> character, kind |-> RefKinds[kind]]

\* generateCharacterReferences calls the provider for the first image of a character.
FirstRefCall(character) ==
    [null |-> FALSE, character |-> character, kind |-> 1, attempt |-> 0]

\* if (!options.skipRefs && config.characters.length > 0)
RefsWanted == ~skipRefs /\ characters > 0

\* generateComic, lines 43-103: the selections, the character references (up to
\* their first provider call) or else the job list, and the early return when
\* there is nothing to generate.
GenerateComicStart ==
    /\ pc = "start"
    /\ \E e \in {Enumerated(config, optPages, optPanels)} :
           IF e.err
           THEN /\ pc' = "exit1"
                /\ error' = "config"
                /\ UNCHANGED <<pagesToGenerate, panelsToGenerate, panelsToProcess,
                               status, calls, refCall>>
           ELSE /\ pagesToGenerate' = e.pages
                /\ panelsToGenerate' = IF optPanels # NoArg THEN SomeSet(e.ids) ELSE NullSet
                /\ error' = "none"
                /\ IF RefsWanted
                   THEN /\ pc' = "refs"
                        /\ refCall' = FirstRefCall(1)
                        /\ UNCHANGED <<panelsToProcess, status, calls>>
                   ELSE /\ Collect(e.jobs)
                        /\ UNCHANGED refCall
    /\ UNCHANGED <<request, options, refFiles, retry, files, i, concurrency, completed,
                   warned, prompted, written, composed, filesAtStart, prev>>

\* What generateCharacterReferences does when the call in flight has returned,
\* is retried, or has failed for good: the same image again, the next image of the
\* character, the next character (the catch ends the character), or the end.
RefNext(step) ==
    IF step = "retry" THEN [refCall EXCEPT !.attempt = @ + 1]
    ELSE IF step = "return" /\ refCall.kind < Len(RefKinds)
    THEN [refCall EXCEPT !.kind = @ + 1, !.attempt = 0]
    ELSE IF refCall.character < characters THEN FirstRefCall(refCall.character + 1)
    ELSE NoRefCall

\* A generateComic that goes on to the panels without awaiting the references.
RefsNotAwaited(next) == TRUE

\* generateComic, line 63: await generateCharacterReferences(...) has returned.
RefsAwaited(next) == next.null

\* generateCharacterReferences: the provider call in flight returns (ok) or raises.
\* The four images of a character are made one after the other, each with the
\* retry loop; after the last character generateComic goes on to the job list.
RefProviderReturns(ok) ==
    /\ pc = "refs"
    /\ ~refCall.null
    /\ \E step \in {RetryStep(refCall.attempt, ok, MaxRetries)} :
           /\ refFiles' = IF step = "return"
                          THEN refFiles \cup {RefFile(refCall.character, refCall.kind)}
                          ELSE refFiles
           /\ refCall' = RefNext(step)
           /\ IF RefsAwaited(refCall')
              THEN Collect(CollectPanels(config, pagesToGenerate, 1, ~panelsToGenerate.null,
                                         panelsToGenerate.ids))
              ELSE UNCHANGED <<panelsToProcess, status, calls, pc>>
    /\ UNCHANGED <<request, options, retry, files, error, pagesToGenerate,
                   panelsToGenerate, i, concurrency, completed, warned, prompted, written,
                   composed, filesAtStart, prev>>

(***************************************************************************)
(* parallel.ts: generateSinglePanel, generatePanelParallel and             *)
(* generatePanelSequential.                                                *)
(***************************************************************************)
\* A batch cut with panels.slice(i): everything from i on.
BatchOfRest(from, c) == {j \in Jobs : from <= j}

\* panels.slice(i, i + concurrency), 1-based.
BatchOf(from, c) == {j \in Jobs : from <= j /\ j < from + c}

Batch(from) == BatchOf(from, concurrency)

\* A barrier that waits for the first job of the batch only (Promise.race).
BatchSettledAny(from) == \E j \in Batch(from) : Settled(j)

\* A barrier that opens only when every job of the batch has its file.
BatchSettledAllOk(from) == \A j \in Batch(from) : status[j] \in {"Skipped", "Succeeded"}

\* await Promise.all(promises): every job of the batch has settled.
BatchSettled(from) == \A j \in Batch(from) : Settled(j)

Skips(S) == {j \in S : OutputExists(panelsToProcess[j].id, files)}

\* generateSinglePanel, for each job of S called in this turn, up to its first
\* suspension: return at once if the file exists, else build the prompt and make
\* the first provider call.
Launch(S) ==
    /\ status' = [j \in Jobs |->
                    IF j \notin S THEN status[j]
                    ELSE IF j \in Skips(S) THEN "Skipped" ELSE "Running"]
    /\ calls' = [j \in Jobs |-> IF j \in S \ Skips(S) THEN 1 ELSE calls[j]]
    /\ prompted' = prompted \cup (S \ Skips(S))

\* A choice of the strategy by the flag alone.
UseParallelByFlag(flag, n) == flag

\* generateComic, line 105: options.parallel && panelsToProcess.length > 1.
UseParallel(flag, n) == flag /\ n > 1

\* generateComic, lines 103-116: the choice of the strategy, and the strategy up
\* to its first suspension (the first batch, or the first job).
GenerateComicDispatch ==
    /\ pc = "collected"
    /\ IF UseParallel(parallel, NumJobs)
       THEN /\ pc' = "parallel"
            /\ concurrency' = EffectiveConcurrency(optConcurrency)
            /\ Launch(BatchOf(1, concurrency'))
            /\ completed' = Cardinality(Skips(BatchOf(1, concurrency')))
       ELSE /\ pc' = "sequential"
            /\ concurrency' = 0
            /\ Launch({1})
            /\ completed' = 0
    /\ i' = 1
    /\ UNCHANGED <<request, options, references, files, error, pagesToGenerate,
                   panelsToGenerate, panelsToProcess, warned, written, composed,
                   filesAtStart, prev>>

\* callImageGen resolves (TRUE) or raises (FALSE), as the provider decides.  When
\* the run repeats an earlier one against the same provider behaviour, the k-th
\* call for a job ends as the k-th call for it ended then.
ProviderOutcomes(j) ==
    IF prev.null \/ prev.mode # "compare" \/ calls[j] > prev.calls[j]
        \/ (calls[j] = prev.calls[j] /\ prev.status[j] = "Running")
    THEN BOOLEAN
    ELSE {prev.status[j] = "Succeeded" /\ calls[j] = prev.calls[j]}

\* The provider call in flight for job j returns (ok) or raises: the retry loop,
\* and what the strategy does with the job's result.
ProviderReturns(j, ok) ==
    /\ pc \in {"parallel", "sequential"}
    /\ j \in Jobs
    /\ status[j] = "Running"
    /\ ok \in ProviderOutcomes(j)
    /\ \E step \in {RetryStep(calls[j] - 1, ok, MaxRetries)} :
           /\ calls' = IF step = "retry" THEN [calls EXCEPT ![j] = @ + 1] ELSE calls
           /\ status' = [status EXCEPT ![j] = CASE step = "return" -> "Succeeded"
                                               [] step = "retry" -> "Running"
                                               [] OTHER -> "Failed"]
           /\ files' = IF step = "return"
                       THEN files \cup {OutputPath(panelsToProcess[j].id)}
                       ELSE files
           /\ written' = IF step = "return" THEN written \cup {j} ELSE written
           /\ IF step = "throw" /\ ~JobFailureCaught(pc)
              THEN /\ pc' = "exit1"
                   /\ error' = "job"
                   /\ UNCHANGED <<warned, completed>>
              ELSE /\ warned' = IF step = "throw" THEN warned \cup {j} ELSE warned
                   /\ completed' = IF pc = "parallel" THEN completed + Progress(step)
                                   ELSE completed
                   /\ UNCHANGED <<pc, error>>
    /\ UNCHANGED <<request, options, references, pagesToGenerate, panelsToGenerate,
                   panelsToProcess, i, concurrency, prompted, composed, filesAtStart,
                   prev>>

\* A loop that moves on by one job, whatever the batch size.
NextBatchStartByOne(from, c) == from + 1

\* generatePanelParallel, the loop's step: i += concurrency.
NextBatchStart(from, c) == from + c

\* generatePanelParallel: Promise.all of the batch has resolved and there is a
\* next batch.
ParNextBatch ==
    /\ pc = "parallel"
    /\ BatchSettled(i)
    /\ NextBatchStart(i, concurrency) <= NumJobs
    /\ i' = NextBatchStart(i, concurrency)
    /\ Launch(Batch(i'))
    /\ completed' = completed + Cardinality(Skips(Batch(i')))
    /\ UNCHANGED <<request, options, references, files, pc, error, pagesToGenerate,
                   panelsToGenerate, panelsToProcess, concurrency, warned, written,
                   composed, filesAtStart, prev>>

\* generatePanelParallel returns after its last batch.
ParReturn ==
    /\ pc = "parallel"
    /\ BatchSettled(i)
    /\ NextBatchStart(i, concurrency) > NumJobs
    /\ pc' = "generated"
    /\ UNCHANGED <<request, options, references, files, error, pagesToGenerate,
                   panelsToGenerate, panelsToProcess, status, calls, i, concurrency,
                   completed, warned, prompted, written, composed, filesAtStart, prev>>

\* A loop that calls generateSinglePanel without awaiting it.
JobNotAwaited(j) == TRUE

\* generatePanelSequential, line 329: await generateSinglePanel(...) has returned.
JobAwaited(j) == status[j] \in {"Skipped", "Succeeded"}

\* generatePanelSequential: the awaited job has returned and there is a next one.
SeqNextJob ==
    /\ pc = "sequential"
    /\ JobAwaited(i)
    /\ i < NumJobs
    /\ i' = i + 1
    /\ Launch({i'})
    /\ UNCHANGED <<request, options, references, files, pc, error, pagesToGenerate,
                   panelsToGenerate, panelsToProcess, concurrency, completed, warned,
                   written, composed, filesAtStart, prev>>

\* generatePanelSequential returns after its last job.
SeqReturn ==
    /\ pc = "sequential"
    /\ JobAwaited(i)
    /\ i = NumJobs
    /\ pc' = "generated"
    /\ UNCHANGED <<request, options, references, files, error, pagesToGenerate,
                   panelsToGenerate, panelsToProcess, status, calls, i, concurrency,
                   completed, warned, prompted, written, composed, filesAtStart, prev>>

\* A composition of every selected page, whatever the panel filter.
PagesToComposeAll == pagesToGenerate

\* generateComic, lines 126-136: the pages handed to compositePages.
PagesToCompose ==
    IF panelsToGenerate.null THEN pagesToGenerate
    ELSE SelectSeq(pagesToGenerate,
                   LAMBDA k : /\ k \in 1..Len(config)
                              /\ \E x \in 1..Len(config[k].panels) :
                                    config[k].panels[x] \in panelsToGenerate.ids)

\* compositePages: every page of the list that the project has is composed inside
\* a try/catch; compositeSinglePage starts with calculatePageSize(config), and what
\* that throws is logged as a warning for the page.
ComposeWarnings(ps, pageSize) ==
    IF pageSize.err THEN Range(ps) \cap (1..Len(config)) ELSE {}

\* generateComic, lines 118-148: composition, and the return.
GenerateComicCompose ==
    /\ pc = "generated"
    /\ composed' = SomePages(PagesToCompose,
                             ComposeWarnings(PagesToCompose, calculatePageSize(pageSettings)))
    /\ pc' = "done"
    /\ UNCHANGED <<request, options, references, files, error, pagesToGenerate,
                   panelsToGenerate, panelsToProcess, status, calls, i, concurrency,
                   completed, warned, prompted, written, filesAtStart, prev>>

\* main.ts, case "generate": the same command is run again once the first run has
\* ended, either on the directory as the first run left it ("resume"), or with the
\* other strategy on the directory as the first run found it, the provider
\* behaving as before ("compare").
Rerun(mode) ==
    /\ pc \in {"done", "exit1"}
    /\ prev.null
    /\ prev' = [null |-> FALSE, mode |-> mode, parallel |-> parallel, pc |-> pc,
                error |-> error, filesAtStart |-> filesAtStart, files |-> files,
                status |-> status, calls |-> calls, warned |-> warned]
    /\ parallel' = IF mode = "compare" THEN ~parallel ELSE parallel
    /\ files' = IF mode = "compare" THEN filesAtStart ELSE files
    /\ filesAtStart' = files'
    /\ pc' = "start"
    /\ error' = "none"
    /\ pagesToGenerate' = <<>>
    /\ panelsToGenerate' = NullSet
    /\ panelsToProcess' = <<>>
    /\ status' = <<>>
    /\ calls' = <<>>
    /\ i' = 0
    /\ concurrency' = 0
    /\ completed' = 0
    /\ warned' = {}
    /\ prompted' = {}
    /\ written' = {}
    /\ composed' = NullPages
    /\ UNCHANGED <<config, optPages, optPanels, optConcurrency, pageSettings, layout,
                   request, characters, skipRefs, references>>

(***************************************************************************)
(* The generation runs: one invocation of `generate` on a project.         *)
(***************************************************************************)
PageArgs == {NoArg, <<"3", ",", "1">>, <<"2">>, <<"1", "-">>}

PanelArgs == {NoArg, <<"p", "1", ":", "1">>}

ConcurrencyArgs == {0, 1, 2, 9}

Init ==
    /\ config \in Projects(MaxPages, Layouts(MaxPanels))
    /\ optPages \in PageArgs
    /\ optPanels \in PanelArgs
    /\ parallel \in BOOLEAN
    /\ optConcurrency \in IF parallel THEN ConcurrencyArgs ELSE {0}
    /\ Len(Enumerated(config, optPages, optPanels).jobs) <= MaxJobs
    /\ files \in SUBSET PanelIds
    /\ filesAtStart = files
    /\ prev = NoRun
    /\ NoCharacters
    /\ DefaultProject
    /\ FreshRun

Next ==
    \/ GenerateComicStart
    \/ GenerateComicDispatch
    \/ \E j \in 1..Len(panelsToProcess), ok \in BOOLEAN : ProviderReturns(j, ok)
    \/ ParNextBatch
    \/ ParReturn
    \/ SeqNextJob
    \/ SeqReturn
    \/ GenerateComicCompose

Spec == Init /\ [][Next]_vars

(***************************************************************************)
(* The repeated runs: a run of `generate`, then the same command again.    *)
(***************************************************************************)
NextRerun ==
    \/ Next
    \/ \E mode \in {"resume", "compare"} : Rerun(mode)

SpecRerun == Init /\ [][NextRerun]_vars

(***************************************************************************)
(* The enumeration runs: generateComic up to its job list, on every        *)
(* --pages argument of up to MaxRangeLen characters.                       *)
(***************************************************************************)
RangeAlphabet == {"1", "2", "3", ",", "-"}

RangeStrings == UNION {[1..n -> RangeAlphabet] : n \in 0..MaxRangeLen}

\* --panels: none, the first panel of page p1, the first panel of page p3.
EnumPanelArgs == PanelArgs \cup {<<"p", "3", ":", "1">>}

InitEnum ==
    /\ config \in Projects(EnumMaxPages, Layouts(EnumMaxPanels))
    /\ optPages \in RangeStrings
    /\ optPanels \in EnumPanelArgs
    /\ parallel = FALSE
    /\ optConcurrency = 0
    /\ files = {}
    /\ filesAtStart = files
    /\ prev = NoRun
    /\ NoCharacters
    /\ DefaultProject
    /\ FreshRun

NextEnum == GenerateComicStart

SpecEnum == InitEnum /\ [][NextEnum]_vars

(***************************************************************************)
(* The runs on a project's settings: one invocation of `generate` on a     *)
(* small project, with the page settings and the --concurrency of the      *)
(* caller's choice.                                                        *)
(***************************************************************************)
AspectRatioArgs ==
    {<<"3", ":", "4">>, <<"4", ":", "3">>, <<"0", ":", "4">>, <<"3", ":">>, <<"x">>}

\* --concurrency <n>, as parseInt gives it.
CallerConcurrency == -1..10

SettingsArgs ==
    {[width |-> wh[1], height |-> wh[2], aspectRatio |-> ar, dpi |-> DefaultDpi] :
        wh \in {<<0, 0>>, <<800, 600>>}, ar \in AspectRatioArgs}

InitOptions ==
    /\ config \in Projects(2, Layouts(1))
    /\ optPages \in {NoArg, <<"1", "-">>}
    /\ optPanels \in PanelArgs
    /\ parallel \in BOOLEAN
    /\ optConcurrency \in IF parallel THEN CallerConcurrency ELSE {0}
    /\ files = {}
    /\ filesAtStart = files
    /\ prev = NoRun
    /\ NoCharacters
    /\ pageSettings \in SettingsArgs
    /\ layout = DefaultLayout
    /\ FreshRun

SpecOptions == InitOptions /\ [][Next]_vars

(***************************************************************************)
(* The geometry runs: the bounds and the aspect ratio of one panel of one  *)
(* page, as generateSinglePanel and as compositeSinglePage resolve them.   *)
(***************************************************************************)
\* generateSinglePanel, lines 364-369: the grid, the bounds on the default page
\* size, and the aspect ratio handed to the provider.
GenerateSinglePanelGeometry ==
    /\ request.null
    /\ \E grid \in {ResolvedGrid(layout)} :
          /\ WholeCells(grid, DefaultPageSize)
          /\ \E bounds \in {calculatePanelBoundsCustom(layout.panel, grid, DefaultPageSize)} :
                request' = [null |-> FALSE, by |-> "generate", grid |-> grid,
                            pageSize |-> DefaultPageSize, bounds |-> bounds,
                            ar |-> PanelAspectRatio(layout.panel, bounds)]
    /\ UNCHANGED <<options, references, files, pc, error, pagesToGenerate,
                   panelsToGenerate, panelsToProcess, status, calls, i, concurrency,
                   completed, warned, prompted, written, composed, filesAtStart, prev>>

\* compositeSinglePage: the page size of the project, the grid, and the bounds the
\* panel is drawn in.
CompositePanelBounds ==
    /\ request.null
    /\ \E pageSize \in {calculatePageSize(pageSettings)}, grid \in {ResolvedGrid(layout)} :
          /\ ~pageSize.err
          /\ WholeCells(grid, pageSize)
          /\ request' = [null |-> FALSE, by |-> "composite", grid |-> grid,
                         pageSize |-> pageSize,
                         bounds |-> calculatePanelBoundsCustom(layout.panel, grid, pageSize),
                         ar |-> <<>>]
    /\ UNCHANGED <<options, references, files, pc, error, pagesToGenerate,
                   panelsToGenerate, panelsToProcess, status, calls, i, concurrency,
                   completed, warned, prompted, written, composed, filesAtStart, prev>>

LayoutTypes == {"custom", "2x2-grid", "cinematic", "webtoon", "dense", "splash"}

GutterArgs == {0, 10, 20}

GridArgs ==
    {NoGrid}
    \cup {Grid(r, c, g) : r \in 1..MaxGridDim, c \in 1..MaxGridDim, g \in GutterArgs}
    \cup {GridNoGutter(r, c) : r \in 1..MaxGridDim, c \in 1..MaxGridDim}

\* The panels a grid can hold: a cell of the grid, spans that stay inside it (0: no
\* span given), with or without an aspect ratio of its own.
PanelsOn(grid) ==
    {[row |-> r, col |-> c, rowspan |-> rs, colspan |-> cs, aspectRatio |-> ar] :
        r \in 0..(grid.rows - 1), c \in 0..(grid.cols - 1),
        rs \in 0..MaxGridDim, cs \in 0..MaxGridDim,
        ar \in {<<>>, <<"1", "6", ":", "9">>}}

PanelFits(panel, grid) ==
    /\ panel.row + SpanOf(panel.rowspan) <= grid.rows
    /\ panel.col + SpanOf(panel.colspan) <= grid.cols

GeomSettingsArgs ==
    {[width |-> wh[1], height |-> wh[2], aspectRatio |-> <<"3", ":", "4">>, dpi |-> 0] :
        wh \in {<<0, 0>>, <<800, 600>>, <<1200, 1600>>}}

InitGeom ==
    /\ \E type \in LayoutTypes, grid \in GridArgs, n \in 1..MaxGridDim :
          /\ grid.null \/ type = "custom"
          /\ \E panel \in PanelsOn(ResolvedGridOf(type, grid, n)) :
                /\ PanelFits(panel, ResolvedGridOf(type, grid, n))
                /\ layout = [type |-> type, grid |-> grid, panelsCount |-> n,
                             panel |-> panel]
    /\ pageSettings \in GeomSettingsArgs
    /\ config = <<[id |-> PageId(1), panels |-> <<"a">>]>>
    /\ optPages = NoArg
    /\ optPanels = NoArg
    /\ parallel = FALSE
    /\ optConcurrency = 0
    /\ files = {}
    /\ filesAtStart = files
    /\ prev = NoRun
    /\ NoCharacters
    /\ FreshRun

NextGeom ==
    \/ GenerateSinglePanelGeometry
    \/ CompositePanelBounds

SpecGeom == InitGeom /\ [][NextGeom]_vars

(***************************************************************************)
(* The retry runs: generateSinglePanel builds the options of a panel and   *)
(* calls callImageGenWithRetry, whose loop is followed call by call.       *)
(***************************************************************************)
\* buildPanelPrompt: the text the prompt builder composes for a panel of a page.
buildPanelPrompt(job) == [page |-> job.pageIndex, panel |-> job.id]

\* The references of one character that exist: expressions, angles, full body.
RefImagesOf(character, disk) ==
    SelectSeq(<<RefFile(character, 1), RefFile(character, 2), RefFile(character, 3)>>,
              LAMBDA f : f \in disk)

RECURSIVE getCharacterReferenceImages(_, _)
\* The reference images of a panel that shows every character of the project, with
\* an expression and an angle: those of its characters that exist, in order.
getCharacterReferenceImages(n, disk) ==
    IF n = 0 THEN <<>>
    ELSE getCharacterReferenceImages(n - 1, disk) \o RefImagesOf(n, disk)

\* resolveProvider(options.provider), once per run.
ResolvedProvider == "google"

\* The aspect ratio generateSinglePanel works out for a panel.
JobAspectRatio ==
    PanelAspectRatio(layout.panel,
                     calculatePanelBoundsCustom(layout.panel, ResolvedGrid(layout),
                                                DefaultPageSize))

\* The options generateSinglePanel hands to callImageGenWithRetry.
PanelOptions(job, disk) ==
    [prompt |-> buildPanelPrompt(job), output |-> job.id, ar |-> JobAspectRatio,
     quality |-> "2k", provider |-> ResolvedProvider,
     refImages |-> getCharacterReferenceImages(characters, disk)]

\* callImageGenWithRetry(options, 2) up to its first suspension: lastError = null,
\* attempt = 0, and the first callImageGen(options).
RetryCalled(opts) ==
    [null |-> FALSE, options |-> opts, attempt |-> 0, lastError |-> 0,
     passed |-> <<RetryOptions(opts, 0)>>, result |-> "pending", thrown |-> 0]

\* generateSinglePanel, lines 356-394, for a panel whose file does not exist.
CallImageGenWithRetry(job) ==
    /\ retry.null
    /\ ~OutputExists(job.id, files)
    /\ retry' = RetryCalled(PanelOptions(job, refFiles))
    /\ UNCHANGED <<request, options, refFiles, refCall, files, pc, error, pagesToGenerate,
                   panelsToGenerate, panelsToProcess, status, calls, i, concurrency,
                   completed, warned, prompted, written, composed, filesAtStart, prev>>

\* The loop after a call that returned (step "return"), that raised with attempts
\* left ("retry": the next callImageGen(options)), or that raised on the last
\* attempt ("throw": throw lastError).
RetryAfter(r, step, caught) ==
    [r EXCEPT !.lastError = caught,
              !.attempt = IF step = "retry" THEN @ + 1 ELSE @,
              !.passed = IF step = "retry"
                         THEN Append(@, RetryOptions(r.options, r.attempt + 1)) ELSE @,
              !.result = CASE step = "return" -> "returned"
                           [] step = "retry" -> "pending"
                           [] OTHER -> "thrown",
              !.thrown = IF step = "throw" THEN caught ELSE @]

\* callImageGenWithRetry: the callImageGen in flight returns (ok) or raises.
CallImageGenReturns(ok) ==
    /\ ~retry.null
    /\ retry.result = "pending"
    /\ retry' = RetryAfter(retry, RetryStep(retry.attempt, ok, MaxRetries),
                           IF ok THEN retry.lastError
                           ELSE LastError(retry.lastError, retry.attempt + 1))
    /\ UNCHANGED <<request, options, refFiles, refCall, files, pc, error, pagesToGenerate,
                   panelsToGenerate, panelsToProcess, status, calls, i, concurrency,
                   completed, warned, prompted, written, composed, filesAtStart, prev>>

\* The character reference files of a project.
AllRefFiles(n) == {RefFile(c, k) : c \in 1..n, k \in 1..Len(RefKinds)}

\* A panel with an aspect ratio of its own.
WidePanel == [DefaultLayout.panel EXCEPT !.aspectRatio = <<"1", "6", ":", "9">>]

InitRetry ==
    /\ config \in Projects(MaxOptionPages, Layouts(1))
    /\ optPages = NoArg
    /\ optPanels = NoArg
    /\ parallel = FALSE
    /\ optConcurrency = 0
    /\ files = {}
    /\ filesAtStart = files
    /\ prev = NoRun
    /\ characters \in 0..MaxCharacters
    /\ skipRefs = TRUE
    /\ refFiles \in SUBSET AllRefFiles(characters)
    /\ retry = NoRetry
    /\ pageSettings = DefaultPageSettings
    /\ layout \in {DefaultLayout, [DefaultLayout EXCEPT !.panel = WidePanel]}
    /\ FreshRun

NextRetry ==
    \/ \E job \in Range(Enumerated(config, optPages, optPanels).jobs) :
          CallImageGenWithRetry(job)
    \/ \E ok \in BOOLEAN : CallImageGenReturns(ok)

SpecRetry == InitRetry /\ [][NextRetry]_vars

(***************************************************************************)
(* The job runs: one invocation of `generate` on a project with characters,*)
(* every page selected or none, from the character references to the       *)
(* composition.                                                            *)
(***************************************************************************)
\* --pages: none, or a page the project does not have.
JobPageArgs == {NoArg, <<"9">>}

\* --concurrency with --parallel.
JobConcurrencyArgs == {1, 2}

InitJobs ==
    /\ config \in Projects(RunMaxPages, Layouts(1))
    /\ optPages \in JobPageArgs
    /\ optPanels = NoArg
    /\ parallel \in BOOLEAN
    /\ optConcurrency \in IF parallel THEN JobConcurrencyArgs ELSE {0}
    /\ files \in SUBSET PanelIds
    /\ filesAtStart = files
    /\ prev = NoRun
    /\ characters \in 0..MaxCharacters
    /\ skipRefs \in BOOLEAN
    /\ refFiles = {}
    /\ retry = NoRetry
    /\ DefaultProject
    /\ FreshRun

NextJobs ==
    \/ Next
    \/ \E ok \in BOOLEAN : RefProviderReturns(ok)

SpecJobs == InitJobs /\ [][NextJobs]_vars

(***************************************************************************)
(* The fair runs: generatePanelParallel on a project of two pages or more, *)
(* where every provider call in flight returns or raises in the end and    *)
(* every continuation that is ready is run by the event loop.              *)
(***************************************************************************)
InitLive ==
    /\ config \in Projects(LiveMaxPages, Layouts(1))
    /\ Len(config) >= 2
    /\ optPages = NoArg
    /\ optPanels = NoArg
    /\ parallel = TRUE
    /\ optConcurrency \in JobConcurrencyArgs
    /\ files \in SUBSET PanelIds
    /\ filesAtStart = files
    /\ prev = NoRun
    /\ NoCharacters
    /\ DefaultProject
    /\ FreshRun

NextLive ==
    \/ GenerateComicStart
    \/ GenerateComicDispatch
    \/ \E j \in 1..Len(panelsToProcess), ok \in BOOLEAN : ProviderReturns(j, ok)
    \/ ParNextBatch
    \/ ParReturn
    \/ GenerateComicCompose

\* The continuation of an awaited promise that has settled is run.
Continues ==
    GenerateComicStart \/ GenerateComicDispatch \/ ParNextBatch \/ ParReturn
        \/ GenerateComicCompose

\* Every provider call eventually returns or raises.
ProviderAnswers == \A j \in 1..LiveMaxPages : WF_vars(\E ok \in BOOLEAN : ProviderReturns(j, ok))

SpecLive == InitLive /\ [][NextLive]_vars /\ WF_vars(Continues) /\ ProviderAnswers

(***************************************************************************)
(* Properties.                                                             *)
(***************************************************************************)
\* generatePanelParallel has been entered in this run.
InParallelRun == concurrency >= 1

\* generatePanelSequential has been entered in this run.
InSequentialRun == i >= 1 /\ concurrency = 0

RunEnded == pc \in {"done", "exit1"}

Running == {j \in Jobs : status[j] = "Running"}

Failed == {j \in Jobs : status[j] = "Failed"}

\* The job's failure was reported: by generatePanelWithProgress's warning, or by
\* main's error message when the failure ended the run.
Reported(j) == j \in warned \/ (pc = "exit1" /\ error = "job" /\ status[j] = "Failed")

\* The batch a job belongs to, counted from 0.
BatchIndex(j) == (j - 1) \div concurrency

\* C1: a job whose provider call fails on every attempt is called exactly 3 times
\* and is reported failed at the third failure: no job is ever called a 4th time,
\* and no job is failed or reported failed after fewer than 3 calls.
C1_RetryBound ==
    \A j \in Jobs :
        /\ calls[j] <= 3
        /\ status[j] = "Failed" => calls[j] = 3 /\ Reported(j)
        /\ j \in warned => status[j] = "Failed" /\ calls[j] = 3

C1_Witness ==
    \E j \in Jobs :
        /\ status[j] = "Failed"
        /\ calls[j] = 3
        /\ j \in warned
        /\ panelsToProcess[j].id \notin filesAtStart

\* C2: a job that starts when its file panels/<panelId>.png exists returns at once:
\* it is Skipped, no provider call is made for it, no prompt is built for it, and
\* the step leaves the disk as it was; a Skipped job never has a call, a prompt or
\* a write to its name.
C2_IdempotentSkip ==
    [][\A j \in Jobs :
          pc' # "start" =>
            /\ (status[j] = "Pending" /\ status'[j] # "Pending"
                    /\ panelsToProcess[j].id \in files)
                => (status'[j] = "Skipped" /\ calls'[j] = 0 /\ j \notin prompted'
                        /\ files' = files)
            /\ status'[j] = "Skipped"
                => (calls'[j] = 0 /\ j \notin prompted' /\ j \notin written')]_vars

C2_Witness ==
    \E j \in Jobs :
        /\ status[j] = "Skipped"
        /\ panelsToProcess[j].id \in filesAtStart
        /\ calls[j] = 0
        /\ \E k \in Jobs : status[k] = "Succeeded"

\* C3: in the bounded-concurrency strategy a job that fails after its retries
\* aborts nothing: the run never ends on the job's error, generatePanelParallel
\* returns only when every job has settled, and the jobs warned about are exactly
\* the failed ones.
C3_BatchIsolation ==
    InParallelRun =>
        /\ pc # "exit1"
        /\ error = "none"
        /\ warned = Failed
        /\ pc \in {"generated", "done"} => \A j \in Jobs : Settled(j)
        /\ pc = "parallel" => \A j \in Batch(i) : status[j] # "Pending"

C3_Witness ==
    /\ pc = "done"
    /\ concurrency = 2
    /\ NumJobs = 3
    /\ status = <<"Succeeded", "Failed", "Succeeded">>
    /\ warned = {2}
    /\ {panelsToProcess[1].id, panelsToProcess[3].id} \subseteq files

\* C4 (as claimed): in the sequential strategy a job's failure never propagates
\* out of the controller: the run never ends on a job's error, and when
\* generatePanelSequential has returned every job has settled.
C4_SequentialIsolation ==
    InSequentialRun =>
        /\ error # "job"
        /\ pc \in {"generated", "done"} => \A j \in Jobs : Settled(j)
        /\ Failed # {} =>
              \A j \in Jobs : status[j] = "Pending" => pc = "sequential"

\* C5: in the bounded-concurrency strategy the jobs started and not yet settled
\* are never more than the effective concurrency, which is at most 8.
C5_InFlightBound ==
    InParallelRun =>
        /\ Cardinality(Running) <= concurrency
        /\ concurrency <= 8

C5_Witness ==
    /\ pc = "parallel"
    /\ concurrency = 2
    /\ NumJobs = 3
    /\ Running = {1, 2}
    /\ status[3] = "Pending"

\* C6: in the bounded-concurrency strategy no job of a later batch has started
\* while a job of an earlier batch has not settled.
C6_BatchBarrier ==
    InParallelRun =>
        \A j, k \in Jobs :
            (BatchIndex(j) < BatchIndex(k) /\ status[k] # "Pending") => Settled(j)

C6_Witness ==
    /\ pc = "parallel"
    /\ concurrency = 2
    /\ NumJobs = 3
    /\ status[3] = "Running"
    /\ status[1] = "Failed"
    /\ status[2] = "Succeeded"

\* C7 (as claimed): no two jobs in flight at the same time target the same file
\* panels/<panelId>.png.
C7_NoSharedOutput ==
    \A j, k \in Running : j # k => panelsToProcess[j].id # panelsToProcess[k].id

\* C8 (as claimed): when a run that ended with failed jobs is run again on the
\* directory it left, the second run calls the provider for exactly the panels
\* whose files were missing when it started.
C8_ResumeExactlyMissing ==
    (/\ ~prev.null
     /\ prev.mode = "resume"
     /\ \E j \in DOMAIN prev.status : prev.status[j] = "Failed"
     /\ RunEnded)
        => {panelsToProcess[j].id : j \in {k \in Jobs : calls[k] > 0}}
             = {panelsToProcess[j].id : j \in Jobs} \ filesAtStart

\* C9 (as claimed): on the same job list, the same initial files and the same
\* provider outcomes, the two strategies end with the same panel files and the
\* same jobs attempted.
C9_StrategiesAgree ==
    (/\ ~prev.null
     /\ prev.mode = "compare"
     /\ prev.parallel # parallel
     /\ RunEnded)
        => /\ files = prev.files
           /\ {j \in Jobs : status[j] # "Pending"}
                = {j \in DOMAIN prev.status : prev.status[j] # "Pending"}

RECURSIVE Join(_, _)
Join(parts, sep) ==
    IF Len(parts) <= 1 THEN (IF parts = <<>> THEN <<>> ELSE parts[1])
    ELSE parts[1] \o <<sep>> \o Join(Tail(parts), sep)

Reverse(xs) == [k \in 1..Len(xs) |-> xs[Len(xs) + 1 - k]]

\* The --pages argument with its comma-separated items written in reverse order.
ItemsReversed(range) ==
    IF range = NoArg THEN NoArg ELSE Join(Reverse(Split(range, ",")), ",")

\* C10: the job list is ordered by page number ascending and, within a page, by
\* the panels' declared order; it holds panels of selected pages only, and it is
\* the list the same items give when written in the reverse order.
C10_JobOrder ==
    (pc # "start" /\ error = "none") =>
        /\ \A a, b \in Jobs :
              a < b =>
                \/ panelsToProcess[a].pageIndex < panelsToProcess[b].pageIndex
                \/ /\ panelsToProcess[a].pageIndex = panelsToProcess[b].pageIndex
                   /\ panelsToProcess[a].panelIndex < panelsToProcess[b].panelIndex
        /\ \A a \in Jobs :
              /\ panelsToProcess[a].pageIndex \in Range(pagesToGenerate)
              /\ config[panelsToProcess[a].pageIndex].panels[panelsToProcess[a].panelIndex + 1]
                    = panelsToProcess[a].id
        /\ panelsToProcess = Enumerated(config, ItemsReversed(optPages), optPanels).jobs

C10_Witness ==
    /\ pc = "collected"
    /\ Len(config) = 3
    /\ optPages = <<"3", ",", "1">>
    /\ optPanels = NoArg
    /\ Len(config[1].panels) = 2
    /\ [k \in Jobs |-> panelsToProcess[k].pageIndex] = <<1, 1, 3>>

(***************************************************************************)
(* What a range string names, read off its grammar: comma-separated items, *)
(* each a number or two numbers joined by a hyphen.                        *)
(***************************************************************************)
\* The items of s: its maximal comma-free substrings, as <<first, last>>.
ItemBounds(s) ==
    {ab \in (1..(Len(s) + 1)) \X (0..Len(s)) :
        /\ ab[1] <= ab[2] + 1
        /\ (ab[1] = 1 \/ s[ab[1] - 1] = ",")
        /\ (ab[2] = Len(s) \/ s[ab[2] + 1] = ",")
        /\ \A k \in ab[1]..ab[2] : s[k] # ","}

AllDigits(s) == s # <<>> /\ \A k \in 1..Len(s) : IsDigit(s[k])

RECURSIVE DecimalValue(_)
DecimalValue(s) ==
    IF s = <<>> THEN 0
    ELSE 10 * DecimalValue(SubSeq(s, 1, Len(s) - 1)) + DigitVal(s[Len(s)])

\* The positions at which item s is two numbers joined by a hyphen.
HyphenAt(s) ==
    {k \in 1..Len(s) : /\ s[k] = "-"
                       /\ AllDigits(SubSeq(s, 1, k - 1))
                       /\ AllDigits(SubSeq(s, k + 1, Len(s)))}

WellFormedItem(s) == AllDigits(s) \/ HyphenAt(s) # {}

\* The numbers an item names: the number, or the inclusive range.
ItemNames(s) ==
    IF AllDigits(s) THEN {DecimalValue(s)}
    ELSE UNION {DecimalValue(SubSeq(s, 1, k - 1))..DecimalValue(SubSeq(s, k + 1, Len(s)))
                : k \in HyphenAt(s)}

WellFormedRange(s) == \A ab \in ItemBounds(s) : WellFormedItem(SubSeq(s, ab[1], ab[2]))

NamedNumbers(s) == UNION {ItemNames(SubSeq(s, ab[1], ab[2])) : ab \in ItemBounds(s)}

StrictlyAscending(xs) == \A a, b \in 1..Len(xs) : a < b => xs[a] < xs[b]

\* C11: for a well-formed --pages string, validatePageRange raises no error and
\* returns exactly the named page numbers that lie in 1..totalPages, without
\* duplicates and in strictly ascending order.
C11_PageRangeResult ==
    (pc # "start" /\ optPanels = NoArg /\ optPages # NoArg /\ WellFormedRange(optPages))
        => /\ error = "none"
           /\ Range(pagesToGenerate) = NamedNumbers(optPages) \cap (1..Len(config))
           /\ StrictlyAscending(pagesToGenerate)

C11_Witness ==
    /\ pc = "collected"
    /\ optPanels = NoArg
    /\ optPages = <<"1", "-", "3">>
    /\ Len(config) = 2
    /\ pagesToGenerate = <<1, 2>>

\* The position of the colon of a selector pageId:range, or 0.
ColonAt(sel) ==
    IF \E k \in 1..Len(sel) : sel[k] = ":"
    THEN CHOOSE k \in 1..Len(sel) : sel[k] = ":" /\ \A j \in 1..(k - 1) : sel[j] # ":"
    ELSE 0

SelectorPageId(sel) == SubSeq(sel, 1, ColonAt(sel) - 1)

SelectorRange(sel) == SubSeq(sel, ColonAt(sel) + 1, Len(sel))

\* The selector is pageId:range with a well-formed range.
WellFormedSelector(sel) == ColonAt(sel) > 0 /\ WellFormedRange(SelectorRange(sel))

\* The pages of the project that have the selector's pageId.
SelectorPages(sel, pages) == {k \in 1..Len(pages) : pages[k].id = SelectorPageId(sel)}

\* C12 (as claimed): a well-formed panel selection whose pageId names no page of
\* the project raises no error, and the run has no job.
C12_UnknownPageOmitted ==
    (/\ pc # "start"
     /\ optPages = NoArg
     /\ WellFormedSelector(optPanels)
     /\ SelectorPages(optPanels, config) = {})
        => error = "none" /\ panelsToProcess = <<>>

\* C13 (as claimed): under a panel selection pageId:range every job is a panel of
\* page pageId at one of the selected 1-based positions.
C13_SelectionScoped ==
    (pc # "start" /\ error = "none" /\ WellFormedSelector(optPanels))
        => \A j \in Jobs :
              /\ panelsToProcess[j].pageIndex \in SelectorPages(optPanels, config)
              /\ panelsToProcess[j].panelIndex + 1 \in NamedNumbers(SelectorRange(optPanels))

\* The selected pages that hold at least one job of the run, in selection order.
PagesWithJobs ==
    SelectSeq(pagesToGenerate,
              LAMBDA k : \E j \in Jobs : panelsToProcess[j].pageIndex = k)

WellFormedAspectRatio(s) ==
    /\ ColonAt(s) > 0
    /\ AllDigits(SelectorPageId(s)) /\ DecimalValue(SelectorPageId(s)) > 0
    /\ AllDigits(SelectorRange(s)) /\ DecimalValue(SelectorRange(s)) > 0

\* The run was given a malformed page selector, a malformed panel selector, or page
\* settings whose size has to be read from a malformed aspect-ratio string.
ConfigurationError ==
    \/ optPages # NoArg /\ ~WellFormedRange(optPages)
    \/ optPanels # NoArg /\ ~WellFormedSelector(optPanels)
    \/ /\ pageSettings.width = 0 \/ pageSettings.height = 0
       /\ ~WellFormedAspectRatio(pageSettings.aspectRatio)

\* C15 (as claimed): a configuration error is raised before the first provider
\* call and is fatal: a run with such an error makes no provider call, and when it
\* has ended it has ended on the configuration error.
C15_ConfigErrorsFirst ==
    ConfigurationError =>
        /\ \A j \in Jobs : calls[j] = 0
        /\ RunEnded => (pc = "exit1" /\ error = "config")

\* The gutter of a grid as the caller gave it: the value supplied, 0 included, and
\* 10 when none is supplied.
SuppliedGutter(grid) == IF grid.hasGutter THEN grid.gutter ELSE 10

UnitPanel(r, c) ==
    [row |-> r, col |-> c, rowspan |-> 1, colspan |-> 1, aspectRatio |-> <<>>]

\* The bounds the code gives the unit panel at (r, c) of the resolved grid.
UnitBounds(r, c) == calculatePanelBoundsCustom(UnitPanel(r, c), request.grid, request.pageSize)

Overlap(a, b) ==
    /\ a.x < b.x + b.w /\ b.x < a.x + a.w
    /\ a.y < b.y + b.h /\ b.y < a.y + a.h

\* The unit panels of an R x C grid tile a W x H page with gutter G.
TilesPage(G, R, C, W, H) ==
    \A r \in 0..(R - 1), c \in 0..(C - 1) :
        /\ c = 0 => UnitBounds(r, c).x = G
        /\ r = 0 => UnitBounds(r, c).y = G
        /\ c + 1 < C => UnitBounds(r, c + 1).x - (UnitBounds(r, c).x + UnitBounds(r, c).w) = G
        /\ r + 1 < R => UnitBounds(r + 1, c).y - (UnitBounds(r, c).y + UnitBounds(r, c).h) = G
        /\ c = C - 1 => UnitBounds(r, c).x + UnitBounds(r, c).w = W - G
        /\ r = R - 1 => UnitBounds(r, c).y + UnitBounds(r, c).h = H - G
        /\ \A r2 \in 0..(R - 1), c2 \in 0..(C - 1) :
              <<r, c>> # <<r2, c2>> => ~Overlap(UnitBounds(r, c), UnitBounds(r2, c2))

\* The cells of a grid with gutter G on a side of the page are whole and positive.
WholeWith(G, cells, side) == side - G * (cells + 1) > 0 /\ (side - G * (cells + 1)) % cells = 0

\* C16 (as claimed): for a grid with gutter G >= 0 on a page on which the cell
\* sizes are whole numbers, the bounds of the R*C unit panels tile the page: no
\* overlap, neighbours exactly G apart, first row and column at offset G, last
\* column ending at pageWidth - G and last row at pageHeight - G.
C16_GridTiling ==
    (/\ ~request.null
     /\ WholeWith(SuppliedGutter(request.grid), request.grid.cols, request.pageSize.width)
     /\ WholeWith(SuppliedGutter(request.grid), request.grid.rows, request.pageSize.height))
        => TilesPage(SuppliedGutter(request.grid), request.grid.rows, request.grid.cols,
                     request.pageSize.width, request.pageSize.height)

\* C17 (as claimed): a gutter of 0 that the grid supplies is used as it is: a unit
\* panel at (row, col) then has x = col * cellWidth with cellWidth = pageWidth / cols.
C17_ZeroGutterUsed ==
    (/\ ~request.null
     /\ request.grid.hasGutter /\ request.grid.gutter = 0
     /\ SpanOf(layout.panel.colspan) = 1
     /\ request.pageSize.width % request.grid.cols = 0)
        => /\ request.bounds.w = request.pageSize.width \div request.grid.cols
           /\ request.bounds.x = layout.panel.col * (request.pageSize.width \div request.grid.cols)

\* The rectangle is the bounding box of the unit cells from (r1, c1) to (r2, c2).
BoundingBox(b, first, last) ==
    /\ b.x = first.x /\ b.y = first.y
    /\ b.x + b.w = last.x + last.w
    /\ b.y + b.h = last.y + last.h

\* The gutter the engine works with: the offset of the first unit cell.
EngineGutter == UnitBounds(0, 0).x

\* The cell size the engine works with: the step from a unit cell to the next one,
\* less the gutter.
EngineCellWidth == UnitBounds(0, 1).x - UnitBounds(0, 0).x - EngineGutter

EngineCellHeight == UnitBounds(1, 0).y - UnitBounds(0, 0).y - EngineGutter

\* C18: a panel with colspan k has width k*cellWidth + (k-1)*gutter, and with
\* rowspan k height k*cellHeight + (k-1)*gutter: its rectangle is exactly the
\* bounding box of the unit cells it covers, the gutters between them included.
C18_SpanBounds ==
    ~request.null =>
        /\ request.bounds.w = SpanOf(layout.panel.colspan) * EngineCellWidth
                                + (SpanOf(layout.panel.colspan) - 1) * EngineGutter
        /\ request.bounds.h = SpanOf(layout.panel.rowspan) * EngineCellHeight
                                + (SpanOf(layout.panel.rowspan) - 1) * EngineGutter
        /\ BoundingBox(request.bounds,
                       UnitBounds(layout.panel.row, layout.panel.col),
                       UnitBounds(layout.panel.row + SpanOf(layout.panel.rowspan) - 1,
                                  layout.panel.col + SpanOf(layout.panel.colspan) - 1))

C18_Witness ==
    /\ ~request.null
    /\ request.by = "generate"
    /\ request.grid = Grid(2, 2, 20)
    /\ layout.panel.row = 0 /\ layout.panel.col = 0
    /\ layout.panel.colspan = 2
    /\ EngineCellWidth = 570 /\ EngineGutter = 20
    /\ request.bounds.w = 2 * 570 + 20

Coprime(a, b) == \A d \in 2..Min(a, b) : a % d # 0 \/ b % d # 0

\* ar is "w:h", w and h written in decimal, coprime, and in the proportion W to H.
ReducedRatio(ar, W, H) ==
    /\ ColonAt(ar) > 0
    /\ AllDigits(SelectorPageId(ar)) /\ AllDigits(SelectorRange(ar))
    /\ DecimalValue(SelectorPageId(ar)) >= 1 /\ DecimalValue(SelectorRange(ar)) >= 1
    /\ ar[1] # "0" /\ ar[ColonAt(ar) + 1] # "0"
    /\ Coprime(DecimalValue(SelectorPageId(ar)), DecimalValue(SelectorRange(ar)))
    /\ DecimalValue(SelectorPageId(ar)) * H = DecimalValue(SelectorRange(ar)) * W

\* C19: the aspect ratio handed to the provider is the panel's own when it has one,
\* and otherwise "w:h" with w and h coprime and w * height = h * width for the
\* bounds computed; bounds of 800 x 600 give "4:3".
C19_AspectRatio ==
    /\ calculatePanelAspectRatio(800, 600) = <<"4", ":", "3">>
    /\ (~request.null /\ request.by = "generate") =>
          IF layout.panel.aspectRatio # <<>>
          THEN request.ar = layout.panel.aspectRatio
          ELSE ReducedRatio(request.ar, request.bounds.w, request.bounds.h)

C19_Witness ==
    /\ ~request.null
    /\ request.by = "generate"
    /\ layout.panel.aspectRatio = <<>>
    /\ request.bounds.w = 585 /\ request.bounds.h = 785
    /\ request.ar = <<"1", "1", "7", ":", "1", "5", "7">>

\* C20 (as claimed): the effective concurrency is in 1..8, it is the caller's value
\* when that is in 1..8, 1 when the caller's value is below 1 and 8 when it is
\* above 8.
C20_ConcurrencyClamp ==
    InParallelRun =>
        /\ concurrency \in 1..8
        /\ optConcurrency \in 1..8 => concurrency = optConcurrency
        /\ optConcurrency < 1 => concurrency = 1
        /\ optConcurrency > 8 => concurrency = 8

\* A job is Retrying while a provider call after its first is in flight.
JobState(st, c) == IF st = "Running" /\ c > 1 THEN "Retrying" ELSE st

JobStates == {"Pending", "Skipped", "Running", "Retrying", "Succeeded", "Failed"}

\* One step of a job along one of the four paths, a retry being entered at most
\* twice and a failure only after the second retry.
JobStep(st, c, st2, c2) ==
    \/ st2 = st /\ c2 = c
    \/ st = "Pending" /\ st2 = "Skipped" /\ c2 = c
    \/ st = "Pending" /\ st2 = "Running" /\ c2 = 1
    \/ st = "Running" /\ st2 = "Running" /\ c2 = c + 1 /\ c2 <= 3
    \/ st = "Running" /\ st2 = "Succeeded" /\ c2 = c
    \/ st = "Running" /\ st2 = "Failed" /\ c = 3 /\ c2 = c

\* C21: every job starts Pending and moves only along Pending -> Skipped,
\* Pending -> Running -> Succeeded, Pending -> Running -> Retrying (at most twice)
\* -> Succeeded, or Pending -> Running -> Retrying (twice) -> Failed; it never
\* leaves Skipped, Succeeded or Failed, and it is in no other state.
C21_JobPaths ==
    [][/\ \A j \in Jobs : /\ JobState(status[j], calls[j]) \in JobStates
                          /\ JobStep(status[j], calls[j], status'[j], calls'[j])
       /\ \A j \in DOMAIN status' : j \notin Jobs => status'[j] = "Pending" /\ calls'[j] = 0]_vars

C21_Witness ==
    \E j, k, l \in Jobs :
        /\ status[j] = "Failed" /\ calls[j] = 3
        /\ status[k] = "Succeeded" /\ calls[k] = 3
        /\ status[l] = "Skipped" /\ calls[l] = 0

\* The jobs that have settled: skipped, succeeded or failed.
SettledJobs == {j \in Jobs : Settled(j)}

\* C22: in the bounded-concurrency strategy `completed` is the number of settled
\* jobs in every state (one increment per job, when it settles), it never exceeds
\* the total, and it is the total once generatePanelParallel has returned.
C22_ProgressCount ==
    InParallelRun =>
        /\ completed = Cardinality(SettledJobs)
        /\ completed <= NumJobs
        /\ pc \in {"generated", "done"} => completed = NumJobs

C22_Witness ==
    /\ pc = "parallel"
    /\ NumJobs = 3
    /\ completed = 2
    /\ status[3] = "Running"
    /\ \E j \in Jobs : status[j] = "Failed"

\* C23: every callImageGen call of one callImageGenWithRetry is given the options
\* of the first (prompt, output path, aspect ratio, quality, provider, reference
\* images), which are the options the job built; and when the loop throws, after 3
\* calls, what it throws is the error of the third call.
C23_RetrySameOptions ==
    ~retry.null =>
        /\ \A k \in 1..Len(retry.passed) :
              /\ retry.passed[k] = retry.passed[1]
              /\ retry.passed[k] = retry.options
        /\ retry.result = "thrown" => Len(retry.passed) = 3 /\ retry.thrown = 3
        /\ retry.result # "thrown" => retry.thrown = 0

C23_Witness ==
    /\ ~retry.null
    /\ retry.result = "thrown"
    /\ Len(retry.passed) = 3
    /\ retry.thrown = 3
    /\ retry.options.refImages = <<RefFile(1, 1), RefFile(1, 3)>>
    /\ retry.options.ar = <<"1", "1", "7", ":", "1", "5", "7">>

Succeeded == {j \in Jobs : status[j] = "Succeeded"}

\* C24: a panel file is created by a provider call that returned, and is the
\* file of that call's job: in every state of a run the files that exist are those
\* that existed at the start and those of the jobs that have succeeded, the jobs
\* whose call wrote a file are the succeeded ones, and a failed or skipped job has
\* written none.
C24_FilesFromSuccess ==
    pc \notin {"start", "refs"} =>
        /\ files = filesAtStart \cup {panelsToProcess[j].id : j \in Succeeded}
        /\ written = Succeeded
        /\ \A j \in Jobs : status[j] \in {"Failed", "Skipped", "Pending"} => j \notin written

C24_Witness ==
    /\ pc = "done"
    /\ \E j, k \in Jobs :
          /\ status[j] = "Failed"
          /\ panelsToProcess[j].id \notin files
          /\ status[k] = "Succeeded"
          /\ panelsToProcess[k].id \notin filesAtStart
          /\ files = {panelsToProcess[k].id}

\* The step starts job j: generateSinglePanel is called for it.
StartsJob(j) ==
    \/ status[j] # "Skipped" /\ status'[j] = "Skipped"
    \/ status'[j] = "Running" /\ calls'[j] = 1 /\ (status[j] # "Running" \/ calls[j] # 1)

\* C25: the job list is read only and every job is taken from it once: once
\* collected the list is the enumeration of the selected panels and never changes,
\* a job is started only while Pending and is never Pending again (so it is started
\* at most once in a run), and a Failed job stays Failed with the calls it had.
C25_JobListReadOnly ==
    [][/\ pc \in {"collected", "parallel", "sequential", "generated", "done"} =>
              /\ panelsToProcess = Enumerated(config, optPages, optPanels).jobs
              /\ panelsToProcess' = panelsToProcess
       /\ \A j \in Jobs :
              /\ StartsJob(j) => status[j] = "Pending"
              /\ status[j] # "Pending" => status'[j] # "Pending"
              /\ status[j] = "Failed" => status'[j] = "Failed" /\ calls'[j] = calls[j]]_vars

C25_Witness ==
    /\ pc = "done"
    /\ InParallelRun
    /\ concurrency = 2
    /\ NumJobs = 3
    /\ status[1] = "Failed"
    /\ status[2] = "Succeeded"
    /\ status[3] = "Succeeded"
    /\ calls[3] = 1

\* The jobs generateSinglePanel has been called for.
StartedJobs == {j \in Jobs : status[j] # "Pending"}

\* C26: in the sequential strategy the jobs are started in list order, one at a
\* time: the started jobs are the first i of the list, every job before the i-th
\* has returned (skipped or succeeded) before the i-th started, and at most one job
\* is in flight.
C26_SequentialOrder ==
    InSequentialRun =>
        /\ i \in 1..NumJobs
        /\ StartedJobs = 1..i
        /\ \A j \in 1..(i - 1) : status[j] \in {"Skipped", "Succeeded"}
        /\ Cardinality(Running) <= 1
        /\ Running \subseteq {i}

C26_Witness ==
    /\ pc = "sequential"
    /\ NumJobs = 3
    /\ i = 3
    /\ status[1] = "Succeeded"
    /\ status[2] = "Skipped"
    /\ status[3] = "Running"
    /\ calls[3] = 2

\* Every enumerated job is Skipped, Succeeded or Failed.
AllJobsTerminal == \A j \in Jobs : status[j] \in {"Skipped", "Succeeded", "Failed"}

\* A provider call in flight holds the run in the batch of its job: the loop is at
\* that batch and no job of a later batch has been started.
HeldByCall(j) ==
    /\ pc = "parallel"
    /\ j \in Batch(i)
    /\ \A k \in Jobs : k >= NextBatchStart(i, concurrency) => status[k] = "Pending"

\* C27: when every provider call returns or raises, a bounded-concurrency run
\* ends with every enumerated job in a terminal state, whatever fails; and as long
\* as a provider call has not returned, the run stays in that call's batch and no
\* later batch is started.
C27_ParallelTerminates ==
    /\ (pc = "parallel") ~> (pc = "done" /\ AllJobsTerminal)
    /\ [](\A j \in Jobs : InParallelRun /\ status[j] = "Running" => HeldByCall(j))

C27_Witness ==
    /\ pc = "done"
    /\ concurrency = 1
    /\ NumJobs >= 2
    /\ status[1] = "Failed"
    /\ status[2] = "Failed"
    /\ AllJobsTerminal

\* The provider calls callImageGenWithRetry has made.
ProviderCalls == Len(retry.passed)

\* C28: the retry loop stops at the first provider call that does not raise: while
\* the loop goes on, and when it returns, every call before the last one made has
\* raised (the last error is that of the call before it), so a loop that returns
\* after k calls, 1 <= k <= 3, had its first success at call k and made exactly k
\* calls; having returned, it makes no further call.
C28_StopsAtFirstSuccess ==
    /\ [](~retry.null =>
            /\ ProviderCalls \in 1..3
            /\ ProviderCalls = retry.attempt + 1
            /\ retry.result \in {"pending", "returned"} =>
                   retry.lastError = ProviderCalls - 1
            /\ retry.result = "thrown" => retry.lastError = ProviderCalls)
    /\ [][~retry.null /\ retry.result = "returned" => retry' = retry]_vars

C28_Witness ==
    /\ ~retry.null
    /\ retry.result = "returned"
    /\ ProviderCalls = 2
    /\ retry.lastError = 1

\* generateComic has called one of the two strategies.
Dispatched == i >= 1

\* C29: the bounded-concurrency strategy is run exactly when the parallel flag is
\* set and there is more than one job; with the flag and a single job the
\* sequential strategy is run; with no job at all neither is run and nothing is
\* composed; and a run with jobs that ends has run one of the two.
C29_StrategyChoice ==
    /\ Dispatched => (InParallelRun <=> parallel /\ NumJobs > 1)
    /\ Dispatched => (InSequentialRun <=> ~(parallel /\ NumJobs > 1))
    /\ pc = "parallel" => InParallelRun
    /\ pc = "sequential" => InSequentialRun
    /\ Dispatched /\ parallel /\ NumJobs = 1 => InSequentialRun
    /\ pc \in {"generated", "done"} /\ NumJobs > 0 => Dispatched
    /\ pc \notin {"start", "refs"} /\ NumJobs = 0 =>
           /\ pc \in {"done", "exit1"}
           /\ ~Dispatched
           /\ concurrency = 0
           /\ composed.null

C29_Witness ==
    /\ pc = "sequential"
    /\ parallel
    /\ optConcurrency = 2
    /\ NumJobs = 1
    /\ status[1] = "Running"

\* The panel phase: generateComic is past the character references.
PanelPhase == pc \notin {"start", "refs"}

\* C30: no panel job is started, and the job list is not even collected, while a
\* character-reference call is in flight or still to be made; in the panel phase
\* the reference images on disk do not change; and when the references are
\* skipped, or there is no character, no reference image is made at all.
C30_RefsBeforePanels ==
    /\ [](/\ PanelPhase \/ StartedJobs # {} => refCall.null
          /\ ~refCall.null => pc = "refs" /\ RefsWanted /\ NumJobs = 0
          /\ ~RefsWanted => refFiles = {})
    /\ [][PanelPhase => refFiles' = refFiles /\ refCall' = refCall]_vars

C30_Witness ==
    /\ ~skipRefs
    /\ characters = 1
    /\ refCall.null
    /\ refFiles = {RefFile(1, 1)}
    /\ NumJobs = 2
    /\ status[1] = "Succeeded"
    /\ status[2] = "Running"

====
